---- MODULE Spec2Model ----
(***************************************************************************)
(* The Wheel (wheel_trainer.py): the WheelGame state machine (puzzle,      *)
(* reveal mask, guessed letters, wheel, score, turn phase, message), the   *)
(* key-event loop of run(), and the row-building loop of draw_puzzle.      *)
(*                                                                         *)
(* Characters are one-character strings, phrases are sequences of them.    *)
(* Floating-point wheel quantities (angle, speed) are fixed-point          *)
(* integers in units of 1/Scale.  The layout's running cell count, which   *)
(* moves in steps of 0.5, is kept in half cells.                           *)
(***************************************************************************)
EXTENDS Integers, Sequences, FiniteSets

(***************************************************************************)
(* Bounds of the model                                                     *)
(***************************************************************************)
\* resolution of the fixed-point wheel quantities (units per degree)
Scale == 1
\* random.uniform(15, 25) is sampled at SpeedSteps + 1 evenly spaced speeds
SpeedSteps == 1
\* no new spin is started once the accumulated wheel angle exceeds this (degrees)
MaxAngle == 200
\* the layout is tried on every phrase of at most MaxLen characters
MaxLen == 5
\* ... under every row limit from 1 to MaxRow
MaxRow == 3

(***************************************************************************)
(* Program constants                                                       *)
(***************************************************************************)
\* mutant of WHEEL_VALUES: one segment of the wheel pays nothing
WheelValuesWithBlank == <<500, 550, 600, 650, 0, 750, 800, 850, 900, 300, 400, 450>>

WHEEL_VALUES == <<500, 550, 600, 650, 700, 750, 800, 850, 900, 300, 400, 450>>
VOWELS == {"A", "E", "I", "O", "U"}
VOWEL_COST == 250
SOLVE_BONUS == 1000
MIN_SPEED == 15
MAX_SPEED == 25
\* wheel_speed *= 0.98
DECAY_PERCENT == 98
\* wheel_speed < 0.1, as a fraction 1 / STOP_INVERSE
STOP_INVERSE == 10
FULL_TURN == 360
\* max_per_row of draw_puzzle
MAX_PER_ROW == 13

(***************************************************************************)
(* Characters: str.upper() and str.isalpha() on the characters in use      *)
(***************************************************************************)
UpperOf == [a |-> "A", c |-> "C", o |-> "O", t |-> "T"]

Upper(ch) == IF ch \in DOMAIN UpperOf THEN UpperOf[ch] ELSE ch

IsAlpha(ch) == ch \in DOMAIN UpperOf \/ ch \in {UpperOf[k] : k \in DOMAIN UpperOf}

UpperSeq(s) == [i \in DOMAIN s |-> Upper(s[i])]

\* str.count(letter) for a one-character letter
Count(s, ch) == Cardinality({i \in DOMAIN s : s[i] = ch})

\* letter in self.current_puzzle
InPuzzle(s, ch) == \E i \in DOMAIN s : s[i] = ch

(***************************************************************************)
(* The phrase source (puzzles.json): category -> phrases                   *)
(***************************************************************************)
Puzzles ==
    [Animals |-> << <<"C", "A", "T">> >>,
     Sayings |-> << <<"t", "o", " ", "T", "O">> >>,
     Words |-> << <<"T", "O">> >>]

\* the characters guess_letter is called with
GuessInputs == {"C", "A", "T", "O", "t", " "}

\* the characters of the layout's short phrases
LayoutAlphabet == {"A", "B", " "}

\* phrases of load_puzzles' default collection
DefaultPhrases ==
    {<<"T", "H", "E", " ", "E", "A", "R", "L", "Y", " ", "B", "I", "R", "D", " ", "G", "E", "T", "S", " ", "T", "H", "E", " ", "W", "O", "R", "M">>,
     <<"S", "T", "A", "R", " ", "W", "A", "R", "S">>}

VARIABLES
    current_category, current_puzzle, revealed, guessed_letters,
    wheel_angle, wheel_spinning, wheel_speed, current_value,
    score, can_guess, message,
    waiting_for_vowel,
    fresh_spin, solved_count,
    lay_phrase, max_per_row, word_i, rows, current_row, current_count, char_index, lay_pc

puzzleVars == <<current_category, current_puzzle, revealed, guessed_letters>>
wheelVars == <<wheel_angle, wheel_spinning, wheel_speed>>
gameVars == <<puzzleVars, wheelVars, current_value, score, can_guess, message>>
hostVars == <<waiting_for_vowel>>
layVars == <<lay_phrase, max_per_row, word_i, rows, current_row, current_count, char_index, lay_pc>>
\* history variables: fresh_spin, solved_count
histVars == <<fresh_spin, solved_count>>
vars == <<gameVars, hostVars, histVars, layVars>>

\* the status message: text, the letter it names (or ""), the amount it names (or 0)
Msg(text, letter, amount) == <<text, letter, amount>>

\* mutant of FreshMask: every position is hidden, punctuation and spaces too
FreshMaskAllHidden(p) == [i \in DOMAIN p |-> "_"]

\* the reveal mask of a fresh puzzle
FreshMask(p) == [i \in DOMAIN p |-> IF IsAlpha(p[i]) THEN "_" ELSE p[i]]

\* '_' in self.revealed
HasHidden(mask) == \E i \in DOMAIN mask : mask[i] = "_"

\* mutant of RevealLetter: only the first occurrence of the letter is revealed
RevealFirstOnly(mask, p, letter) ==
    [i \in DOMAIN mask |->
        IF p[i] = letter /\ (\A j \in 1 .. i - 1 : p[j] # letter) THEN letter ELSE mask[i]]

\* the reveal loop of guess_letter
RevealLetter(mask, p, letter) ==
    [i \in DOMAIN mask |-> IF p[i] = letter THEN letter ELSE mask[i]]

(***************************************************************************)
(* new_puzzle: the assignments it makes, for one random choice             *)
(***************************************************************************)
NewPuzzleState(cat, k) ==
    LET p == UpperSeq(Puzzles[cat][k]) IN
    /\ current_category' = cat
    /\ current_puzzle' = p
    /\ revealed' = FreshMask(p)
    /\ guessed_letters' = {}
    /\ current_value' = 0
    /\ can_guess' = FALSE
    /\ message' = Msg("", "", 0)

new_puzzle ==
    /\ \E cat \in DOMAIN Puzzles : \E k \in DOMAIN Puzzles[cat] : NewPuzzleState(cat, k)
    /\ fresh_spin' = FALSE
    /\ UNCHANGED <<wheelVars, score, hostVars, solved_count, layVars>>

(***************************************************************************)
(* The wheel                                                               *)
(***************************************************************************)
\* the speeds random.uniform(15, 25) is sampled at
SpinSpeeds ==
    {MIN_SPEED * Scale + (k * (MAX_SPEED - MIN_SPEED) * Scale) \div SpeedSteps :
        k \in 0 .. SpeedSteps}

\* int((normalized_angle / 360) * len(WHEEL_VALUES)), as a 0-based index
Segment(angle) ==
    ((angle % (FULL_TURN * Scale)) * Len(WHEEL_VALUES)) \div (FULL_TURN * Scale)

\* mutant of Decay: the wheel does not slow down
DecayNone(speed) == speed

\* wheel_speed *= 0.98
Decay(speed) == (speed * DECAY_PERCENT) \div 100

\* wheel_speed < 0.1
BelowStop(speed) == speed * STOP_INVERSE < Scale

\* mutant of SpinLegal: the turn phase is not looked at
SpinLegalIdleOnly == ~wheel_spinning

\* if not self.wheel_spinning and not self.can_guess
SpinLegal == ~wheel_spinning /\ ~can_guess

spin_wheel ==
    IF SpinLegal
    THEN /\ wheel_angle <= MaxAngle * Scale
         /\ wheel_spinning' = TRUE
         /\ \E s \in SpinSpeeds : wheel_speed' = s
         /\ message' = Msg("Spinning...", "", 0)
         /\ fresh_spin' = TRUE
         /\ UNCHANGED <<puzzleVars, wheel_angle, current_value, score, can_guess,
                        hostVars, solved_count, layVars>>
    ELSE UNCHANGED vars

update_wheel ==
    IF wheel_spinning
    THEN LET angle == wheel_angle + wheel_speed
             speed == Decay(wheel_speed)
         IN  /\ wheel_angle' = angle
             /\ wheel_speed' = speed
             /\ IF BelowStop(speed)
                THEN /\ wheel_spinning' = FALSE
                     /\ current_value' = WHEEL_VALUES[Segment(angle) + 1]
                     /\ can_guess' = TRUE
                     /\ message' = Msg("Landed on $", "", WHEEL_VALUES[Segment(angle) + 1])
                ELSE UNCHANGED <<wheel_spinning, current_value, can_guess, message>>
             /\ UNCHANGED <<puzzleVars, score, hostVars, histVars, layVars>>
    ELSE UNCHANGED vars

(***************************************************************************)
(* buy_vowel, guess_letter, solve_puzzle                                   *)
(***************************************************************************)
\* available_vowels of buy_vowel
AvailableVowels ==
    {v \in VOWELS : InPuzzle(current_puzzle, v) /\ v \notin guessed_letters}

\* the value buy_vowel returns
BuyVowelResult == score >= VOWEL_COST /\ AvailableVowels # {}

\* mutant of BuyVowelMessage: the vowels are looked at before the score
BuyVowelMessageVowelsFirst ==
    IF AvailableVowels = {} THEN Msg("No vowels left!", "", 0)
    ELSE IF score < VOWEL_COST THEN Msg("Need $", "", VOWEL_COST)
    ELSE Msg("Type a vowel (A, E, I, O, U)", "", 0)

\* the message buy_vowel leaves
BuyVowelMessage ==
    IF score < VOWEL_COST THEN Msg("Need $", "", VOWEL_COST)
    ELSE IF AvailableVowels = {} THEN Msg("No vowels left!", "", 0)
    ELSE Msg("Type a vowel (A, E, I, O, U)", "", 0)

\* buy_vowel, the locals of its caller apart
BuyVowelBody ==
    /\ message' = BuyVowelMessage
    /\ UNCHANGED <<puzzleVars, wheelVars, current_value, score, can_guess, histVars, layVars>>

buy_vowel == BuyVowelBody /\ UNCHANGED hostVars

\* mutant of GuessVerdict: a letter already guessed is not turned away
GuessVerdictNoRepeat(letter, is_vowel_purchase) ==
    IF ~IsAlpha(letter) THEN ""
    ELSE IF letter \in VOWELS
         THEN IF ~is_vowel_purchase THEN "Buy vowels with V key!"
              ELSE IF score < VOWEL_COST THEN "Need $"
              ELSE "ok"
         ELSE IF ~can_guess THEN "Spin the wheel first!"
              ELSE "ok"

\* mutant of GuessVerdict: the score is not compared with the vowel cost
GuessVerdictNoFunds(letter, is_vowel_purchase) ==
    IF letter \in guessed_letters THEN "Already guessed!"
    ELSE IF ~IsAlpha(letter) THEN ""
    ELSE IF letter \in VOWELS
         THEN IF ~is_vowel_purchase THEN "Buy vowels with V key!"
              ELSE "ok"
         ELSE IF ~can_guess THEN "Spin the wheel first!"
              ELSE "ok"

\* the message guess_letter rejects the call with, or "" where it returns silently,
\* or "ok" where it goes on to line 475
GuessVerdict(letter, is_vowel_purchase) ==
    IF letter \in guessed_letters THEN "Already guessed!"
    ELSE IF ~IsAlpha(letter) THEN ""
    ELSE IF letter \in VOWELS
         THEN IF ~is_vowel_purchase THEN "Buy vowels with V key!"
              ELSE IF score < VOWEL_COST THEN "Need $"
              ELSE "ok"
         ELSE IF ~can_guess THEN "Spin the wheel first!"
              ELSE "ok"

\* mutant of Charged: a vowel is paid for only when it is in the phrase
ChargedOnHit(letter) ==
    IF letter \in VOWELS /\ InPuzzle(current_puzzle, letter) THEN score - VOWEL_COST ELSE score

\* the score after the vowel charge of line 468
Charged(letter) == IF letter \in VOWELS THEN score - VOWEL_COST ELSE score

\* mutant of Gain: the wheel value is paid once, whatever the count
GainOnce(letter) == IF letter \notin VOWELS THEN current_value ELSE 0

\* what line 482 adds to the score
Gain(letter) ==
    IF letter \notin VOWELS THEN current_value * Count(current_puzzle, letter) ELSE 0

\* mutant of SolvedBy: the mask is looked at before the letter is revealed
SolvedBefore(letter) == ~HasHidden(revealed)

\* '_' not in self.revealed, after the reveal loop
SolvedBy(letter) == ~HasHidden(RevealLetter(revealed, current_puzzle, letter))

\* lines 475-504: the guess is accepted
GuessAccepted(letter) ==
    LET mask == RevealLetter(revealed, current_puzzle, letter)
    IN  IF InPuzzle(current_puzzle, letter)
        THEN IF SolvedBy(letter)
             THEN \* solved: the bonus, then new_puzzle() inside the call
                  /\ score' = Charged(letter) + Gain(letter) + SOLVE_BONUS
                  /\ \E cat \in DOMAIN Puzzles : \E k \in DOMAIN Puzzles[cat] :
                        NewPuzzleState(cat, k)
                  /\ fresh_spin' = FALSE
                  /\ solved_count' = solved_count + 1
             ELSE /\ score' = Charged(letter) + Gain(letter)
                  /\ revealed' = mask
                  /\ guessed_letters' = guessed_letters \cup {letter}
                  /\ IF letter \notin VOWELS
                     THEN /\ message' = Msg("Yes! +$", "", Gain(letter))
                          /\ current_value' = 0
                          /\ can_guess' = FALSE
                          /\ fresh_spin' = FALSE
                     ELSE /\ message' = Msg("Yes! Found ", "", Count(current_puzzle, letter))
                          /\ UNCHANGED <<current_value, can_guess, fresh_spin>>
                  /\ UNCHANGED <<current_category, current_puzzle, solved_count>>
        ELSE /\ score' = Charged(letter)
             /\ guessed_letters' = guessed_letters \cup {letter}
             /\ message' = Msg("Sorry, no ", letter, 0)
             /\ current_value' = 0
             /\ can_guess' = FALSE
             /\ fresh_spin' = IF letter \in VOWELS THEN fresh_spin ELSE FALSE
             /\ UNCHANGED <<current_category, current_puzzle, revealed, solved_count>>

guess_letter(letter0, is_vowel_purchase) ==
    LET letter == Upper(letter0)
        verdict == GuessVerdict(letter, is_vowel_purchase)
    IN  /\ IF verdict = "ok"
           THEN GuessAccepted(letter)
           ELSE /\ message' = IF verdict = "" THEN message
                              ELSE IF verdict = "Need $" THEN Msg(verdict, "", VOWEL_COST)
                              ELSE Msg(verdict, "", 0)
                /\ UNCHANGED <<puzzleVars, current_value, score, can_guess, histVars>>
        /\ UNCHANGED <<wheelVars, layVars>>

solve_puzzle ==
    /\ message' = Msg("Feature coming soon!", "", 0)
    /\ UNCHANGED <<puzzleVars, wheelVars, current_value, score, can_guess,
                   hostVars, histVars, layVars>>

(***************************************************************************)
(* draw_puzzle: the row-building loop                                      *)
(***************************************************************************)
\* str.split(' ')
RECURSIVE Split(_)
Split(s) ==
    IF \A i \in DOMAIN s : s[i] # " "
    THEN <<s>>
    ELSE LET j == CHOOSE i \in DOMAIN s : s[i] = " " /\ \A k \in 1 .. i - 1 : s[k] # " "
         IN  <<SubSeq(s, 1, j - 1)>> \o Split(SubSeq(s, j + 1, Len(s)))

\* current_count > 0 and current_count + space_needed > max_per_row, in half cells
StartsNewRow(count, word_length, limit) ==
    LET space_needed == 2 * word_length + (IF count > 0 THEN 1 ELSE 0)
    IN  count > 0 /\ count + space_needed > 2 * limit

\* one iteration of "for word in words"
LayoutWord ==
    /\ lay_pc = "loop"
    /\ word_i <= Len(Split(lay_phrase))
    /\ LET word_length == Len(Split(lay_phrase)[word_i])
           wrap == StartsNewRow(current_count, word_length, max_per_row)
           row1 == IF wrap THEN <<>> ELSE current_row
           count1 == IF wrap THEN 0 ELSE current_count
           spaced == count1 > 0
           row2 == IF spaced THEN Append(row1, char_index) ELSE row1
           index2 == IF spaced THEN char_index + 1 ELSE char_index
           count2 == IF spaced THEN count1 + 1 ELSE count1
       IN  /\ rows' = IF wrap THEN Append(rows, current_row) ELSE rows
           /\ current_row' = row2 \o [k \in 1 .. word_length |-> index2 + k - 1]
           /\ char_index' = index2 + word_length
           /\ current_count' = count2 + 2 * word_length
    /\ word_i' = word_i + 1
    /\ UNCHANGED <<lay_phrase, max_per_row, lay_pc, gameVars, hostVars, histVars>>

\* after the loop: "if current_row: rows.append(current_row)"
LayoutFinish ==
    /\ lay_pc = "loop"
    /\ word_i > Len(Split(lay_phrase))
    /\ rows' = IF current_row # <<>> THEN Append(rows, current_row) ELSE rows
    /\ lay_pc' = "done"
    /\ UNCHANGED <<lay_phrase, max_per_row, word_i, current_row, current_count, char_index,
                   gameVars, hostVars, histVars>>

(***************************************************************************)
(* Initial states and specifications                                       *)
(***************************************************************************)
\* __init__: the fields' initial values, then new_puzzle()
GameInit ==
    /\ \E cat \in DOMAIN Puzzles : \E k \in DOMAIN Puzzles[cat] :
          /\ current_category = cat
          /\ current_puzzle = UpperSeq(Puzzles[cat][k])
          /\ revealed = FreshMask(UpperSeq(Puzzles[cat][k]))
    /\ guessed_letters = {}
    /\ wheel_angle = 0
    /\ wheel_spinning = FALSE
    /\ wheel_speed = 0
    /\ current_value = 0
    /\ score = 0
    /\ can_guess = FALSE
    /\ message = Msg("", "", 0)
    /\ waiting_for_vowel = FALSE
    /\ fresh_spin = FALSE
    /\ solved_count = 0

\* the layout is not running
LayoutIdle ==
    /\ lay_phrase = <<>>
    /\ max_per_row = MAX_PER_ROW
    /\ word_i = 1
    /\ rows = <<>>
    /\ current_row = <<>>
    /\ current_count = 0
    /\ char_index = 0
    /\ lay_pc = "idle"

Init == GameInit /\ LayoutIdle

\* the engine's operations, called in any order with any arguments
NewPuzzleCall == new_puzzle
SpinCall == spin_wheel
TickCall == update_wheel
BuyVowelCall == buy_vowel
GuessCall == \E l \in GuessInputs, p \in BOOLEAN : guess_letter(l, p) /\ UNCHANGED hostVars
SolveCall == solve_puzzle

Next == NewPuzzleCall \/ SpinCall \/ TickCall \/ BuyVowelCall \/ GuessCall \/ SolveCall

Spec == Init /\ [][Next]_vars

\* run() calls update_wheel() once in every frame of its loop, so a wheel that
\* is spinning is always advanced again
FairSpec == Spec /\ WF_vars(update_wheel)

(***************************************************************************)
(* run: one action per key event of the loop, and the update of each frame *)
(***************************************************************************)
\* the alphabetic keys, the v key apart (it is the K_v branch)
KeyInputs == {"C", "A", "T", "O", "t"}

\* K_SPACE
KeySpace == spin_wheel

\* K_ESCAPE
KeyEscape == new_puzzle

\* mutant of KeyV: the loop does not look at the score before buy_vowel
KeyVUnchecked ==
    IF \E v \in VOWELS : InPuzzle(current_puzzle, v) /\ v \notin guessed_letters
    THEN waiting_for_vowel' = TRUE /\ BuyVowelBody
    ELSE UNCHANGED vars

\* K_v
KeyV ==
    IF score >= VOWEL_COST /\ (\E v \in VOWELS : InPuzzle(current_puzzle, v) /\ v \notin guessed_letters)
    THEN waiting_for_vowel' = TRUE /\ BuyVowelBody
    ELSE UNCHANGED vars

\* K_RETURN
KeyReturn == IF ~can_guess THEN solve_puzzle ELSE UNCHANGED vars

\* a key with event.unicode.isalpha()
KeyLetter ==
    \E key \in KeyInputs :
        LET letter == Upper(key) IN
        IF can_guess /\ letter \notin VOWELS
        THEN guess_letter(letter, FALSE) /\ UNCHANGED hostVars
        ELSE IF waiting_for_vowel /\ letter \in VOWELS
        THEN guess_letter(letter, TRUE) /\ waiting_for_vowel' = FALSE
        ELSE UNCHANGED vars

\* self.update_wheel() at the end of a frame
FrameUpdate == update_wheel

HostNext == KeySpace \/ KeyEscape \/ KeyV \/ KeyReturn \/ KeyLetter \/ FrameUpdate

HostSpec == Init /\ [][HostNext]_vars

\* phrases over LayoutAlphabet of length at most n
RECURSIVE PhrasesUpTo(_)
PhrasesUpTo(n) ==
    IF n = 0 THEN {<<>>}
    ELSE LET shorter == PhrasesUpTo(n - 1)
         IN  shorter \cup {Append(s, ch) : s \in shorter, ch \in LayoutAlphabet}

\* a longer phrase of single-spaced words that wraps four times: "A AAA A AAA A A A"
WrapPhrases ==
    {<<"A", " ", "A", "A", "A", " ", "A", " ", "A", "A", "A", " ", "A", " ", "A", " ", "A">>}

\* the layout's inputs: every short phrase under every small row limit, a
\* phrase of many rows under the next row limit, and default phrases of
\* load_puzzles under the row limit draw_puzzle uses
LayoutInputs ==
    (PhrasesUpTo(MaxLen) \X (1 .. MaxRow))
        \cup (WrapPhrases \X {MaxRow + 1})
        \cup (DefaultPhrases \X {MAX_PER_ROW})

LayoutInit ==
    /\ GameInit
    /\ \E in \in LayoutInputs : lay_phrase = in[1] /\ max_per_row = in[2]
    /\ word_i = 1
    /\ rows = <<>>
    /\ current_row = <<>>
    /\ current_count = 0
    /\ char_index = 0
    /\ lay_pc = "loop"

LayoutNext == LayoutWord \/ LayoutFinish

LayoutSpec == LayoutInit /\ [][LayoutNext]_vars

(***************************************************************************)
(* What the claims speak of                                                *)
(***************************************************************************)
\* the rejection rules of guessLetter, as the specification lists them
Rejected(letter, purchase) ==
    \/ letter \in guessed_letters
    \/ ~IsAlpha(letter)
    \/ letter \in VOWELS /\ ~purchase
    \/ letter \in VOWELS /\ score < 250
    \/ letter \notin VOWELS /\ ~can_guess

\* the guess reveals the last hidden cell of the current puzzle
Completes(letter, purchase) ==
    /\ ~Rejected(letter, purchase)
    /\ \E i \in DOMAIN revealed : revealed[i] = "_"
    /\ \A i \in DOMAIN revealed : revealed[i] = "_" => current_puzzle[i] = letter

\* what an accepted guess pays or costs, the solve bonus apart
BaseFor(letter, purchase) ==
    IF Rejected(letter, purchase) THEN 0
    ELSE IF letter \in VOWELS THEN 0 - 250
    ELSE current_value * Cardinality({i \in DOMAIN current_puzzle : current_puzzle[i] = letter})

\* the solve bonus the step pays
BonusFor(letter, purchase) == IF Completes(letter, purchase) THEN 1000 ELSE 0

\* the step is a call guess_letter(l, p)
IsGuess(l, p) == guess_letter(l, p) /\ UNCHANGED hostVars

\* all cell positions of the rows built so far, in order
RECURSIVE Flatten(_)
Flatten(rs) == IF rs = <<>> THEN <<>> ELSE Head(rs) \o Flatten(Tail(rs))

IsLetterChar(ch) == ch # " "

\* the phrase characters at the rows' cells, spaces skipped
LettersShown ==
    SelectSeq([i \in DOMAIN Flatten(rows) |-> lay_phrase[Flatten(rows)[i] + 1]], IsLetterChar)

\* 0-based position in the phrase of the first character of word k
RECURSIVE WordStart(_, _)
WordStart(ws, k) == IF k = 1 THEN 0 ELSE WordStart(ws, k - 1) + Len(ws[k - 1]) + 1

\* the rows that hold a cell of word k
RowsOfWord(ws, k) ==
    {r \in DOMAIN rows :
        \E c \in DOMAIN rows[r] :
            /\ rows[r][c] >= WordStart(ws, k)
            /\ rows[r][c] < WordStart(ws, k) + Len(ws[k])}

\* no word of the phrase is longer than the row limit
WordsFit == \A k \in DOMAIN Split(lay_phrase) : Len(Split(lay_phrase)[k]) <= max_per_row

\* C1: when every word fits the row limit, the finished rows keep each word on one
\* row, and the phrase characters at the rows' cells, spaces skipped, are the
\* phrase's non-space characters in their order
C1_LayoutKeepsLetters ==
    (lay_pc = "done" /\ WordsFit) =>
        /\ \A k \in DOMAIN Split(lay_phrase) :
              Cardinality(RowsOfWord(Split(lay_phrase), k)) <= 1
        /\ LettersShown = SelectSeq(lay_phrase, IsLetterChar)

\* C2: a vowel bought in AWAITING_GUESS that is absent from the phrase leaves the
\* turn phase and the wheel value as they were
C2_VowelMissKeepsTurn ==
    [][\A l \in GuessInputs :
          (/\ Upper(l) \in VOWELS
           /\ ~Rejected(Upper(l), TRUE)
           /\ ~InPuzzle(current_puzzle, Upper(l))
           /\ can_guess /\ current_value > 0
           /\ IsGuess(l, TRUE))
          => (can_guess' /\ current_value' = current_value)]_vars

\* C3: right after new_puzzle the wheel is idle with value 0, the turn phase is
\* AWAITING_SPIN, no letter is guessed and every alphabetic cell is hidden; so a
\* consonant guess is permitted only after a spin accepted since that new_puzzle
C3_NewPuzzleResetsWheel ==
    /\ [][new_puzzle =>
            /\ ~wheel_spinning'
            /\ current_value' = 0
            /\ ~can_guess'
            /\ guessed_letters' = {}
            /\ \A i \in DOMAIN revealed' :
                  IsAlpha(current_puzzle'[i]) => revealed'[i] = "_"]_vars
    /\ [](can_guess => fresh_spin)

\* C4: the guess that reveals the last hidden cell leaves the same puzzle current,
\* fully revealed, with the guessed letter recorded
C4_SolvedStateObservable ==
    [][\A l \in GuessInputs, p \in BOOLEAN :
          (Completes(Upper(l), p) /\ IsGuess(l, p))
          => /\ current_puzzle' = current_puzzle
             /\ \A i \in DOMAIN revealed' : revealed'[i] = current_puzzle[i]
             /\ guessed_letters' = guessed_letters \cup {Upper(l)}]_vars

\* a cell that was showing is changed: the mask is no longer that of the same puzzle
MaskReplaced ==
    \/ DOMAIN revealed' # DOMAIN revealed
    \/ \E i \in DOMAIN revealed : revealed[i] # "_" /\ revealed'[i] # revealed[i]

\* C5: the solve bonus of 1000 is added exactly in the step that reveals the last
\* hidden cell of a puzzle and in no other step; within one puzzle a shown cell is
\* never hidden again, so the bonus is paid at most once per puzzle
C5_SolveBonusOnce ==
    [][/\ \A l \in GuessInputs, p \in BOOLEAN :
             (~Rejected(Upper(l), p) /\ IsGuess(l, p)) =>
                /\ score' = score + BaseFor(Upper(l), p) + BonusFor(Upper(l), p)
                /\ solved_count' =
                      solved_count + (IF Completes(Upper(l), p) THEN 1 ELSE 0)
       /\ (score' # score \/ solved_count' # solved_count) =>
             \E l \in GuessInputs, p \in BOOLEAN :
                ~Rejected(Upper(l), p) /\ IsGuess(l, p)
       /\ MaskReplaced =>
             guessed_letters' = {} /\ revealed' = FreshMask(current_puzzle')]_vars

\* a puzzle has been solved and its bonus is in the score
C5_Witness == solved_count > 0 /\ score >= 1000

\* C6: a rejected guess_letter call changes nothing but the status message
C6_RejectedGuessChangesNothing ==
    [][\A l \in GuessInputs, p \in BOOLEAN :
          Rejected(Upper(l), p) =>
             \/ UNCHANGED <<score, revealed, guessed_letters, can_guess, current_value,
                            wheel_spinning, current_puzzle>>
             \/ ~IsGuess(l, p)]_vars

\* a repeated letter was turned away while a consonant guess was permitted
C6_Witness ==
    /\ message = Msg("Already guessed!", "", 0)
    /\ can_guess
    /\ guessed_letters # {}

\* C7: an accepted consonant guess adds wheel value times occurrences to the
\* score (the solve bonus apart) and leaves AWAITING_SPIN with wheel value 0
C7_ConsonantGuessPays ==
    [][\A l \in GuessInputs, p \in BOOLEAN :
          (/\ Upper(l) \notin VOWELS
           /\ ~Rejected(Upper(l), p)
           /\ IsGuess(l, p))
          => /\ score' = score + current_value * Count(current_puzzle, Upper(l))
                              + BonusFor(Upper(l), p)
             /\ ~can_guess'
             /\ current_value' = 0]_vars

\* a consonant that occurs twice has just been paid twice a wheel value
C7_Witness ==
    /\ \E v \in {WHEEL_VALUES[i] : i \in DOMAIN WHEEL_VALUES} :
          message = Msg("Yes! +$", "", 2 * v) /\ score >= 2 * v
    /\ ~can_guess
    /\ current_value = 0

\* C8: an accepted vowel guess takes exactly 250 off the score, hit or miss, and
\* earns no wheel money (the solve bonus apart); buy_vowel takes nothing
C8_VowelCostsExactly250 ==
    [][/\ \A l \in GuessInputs :
             (/\ Upper(l) \in VOWELS
              /\ ~Rejected(Upper(l), TRUE)
              /\ IsGuess(l, TRUE))
             => score' = score - 250 + BonusFor(Upper(l), TRUE)
       /\ buy_vowel => score' = score]_vars

\* a vowel absent from the phrase has just been bought
C8_Witness ==
    /\ message[1] = "Sorry, no "
    /\ message[2] \in VOWELS
    /\ message[2] \in guessed_letters

\* C9: the score is never negative
C9_ScoreNonNegative == score >= 0

\* vowels were bought until fewer than 250 are left, and the next was refused
C9_Witness ==
    /\ score < 250
    /\ guessed_letters \cap VOWELS # {}
    /\ message = Msg("Need $", "", 250)

\* C10: spin_wheel starts the wheel, at a speed in [15, 25], exactly when the
\* wheel is idle in AWAITING_SPIN, and otherwise changes nothing; nothing else
\* starts the wheel
C10_SpinOnlyWhenLegal ==
    [][/\ spin_wheel =>
             IF ~wheel_spinning /\ ~can_guess
             THEN /\ wheel_spinning'
                  /\ wheel_speed' >= 15 * Scale
                  /\ wheel_speed' <= 25 * Scale
                  /\ UNCHANGED <<wheel_angle, current_value, can_guess, score,
                                 revealed, guessed_letters>>
             ELSE UNCHANGED <<wheel_speed, wheel_angle, current_value, wheel_spinning,
                              can_guess, score, revealed, guessed_letters>>
       /\ (~wheel_spinning /\ wheel_spinning') => (~can_guess /\ spin_wheel)]_vars

\* a second spin has just been accepted
C10_Witness ==
    /\ wheel_spinning
    /\ wheel_speed \in SpinSpeeds
    /\ wheel_angle > 0
    /\ message = Msg("Spinning...", "", 0)

\* the 0-based table index of a final angle, as the specification computes it
IndexOfAngle(angle) == ((angle % (360 * Scale)) * 12) \div (360 * Scale)

\* C11: every tick of a spinning wheel lowers the speed and the wheel goes on
\* spinning exactly while the speed is at least 0.1; at the tick it stops the
\* segment index of the final angle is in 0..11, the wheel value is that table
\* entry and the turn awaits a guess; and a spinning wheel that is advanced on
\* every tick eventually stops
C11_WheelStops ==
    /\ [][(wheel_spinning /\ update_wheel) =>
            /\ wheel_speed' < wheel_speed
            /\ wheel_spinning' <=> wheel_speed' * 10 >= Scale
            /\ ~wheel_spinning' =>
                  /\ IndexOfAngle(wheel_angle') \in 0 .. 11
                  /\ current_value' = WHEEL_VALUES[IndexOfAngle(wheel_angle') + 1]
                  /\ can_guess']_vars
    /\ (wheel_spinning ~> ~wheel_spinning)

\* the wheel has just landed on a segment and the turn awaits a guess
C11_Witness ==
    /\ ~wheel_spinning
    /\ can_guess
    /\ wheel_angle > 0
    /\ message = Msg("Landed on $", "", WHEEL_VALUES[IndexOfAngle(wheel_angle) + 1])
    /\ current_value = WHEEL_VALUES[IndexOfAngle(wheel_angle) + 1]

\* the step is an accepted spin, a new puzzle, or an accepted consonant guess
StepBetweenBuyAndVowel ==
    \/ SpinLegal /\ spin_wheel
    \/ new_puzzle
    \/ \E l \in KeyInputs :
          /\ Upper(l) \notin VOWELS
          /\ ~Rejected(Upper(l), FALSE)
          /\ IsGuess(l, FALSE)

\* the step is an accepted vowel guess: the vowel joins the guessed letters
StepVowelGuess ==
    \E v \in VOWELS : v \notin guessed_letters /\ v \in guessed_letters'

\* C12: in the host loop a vowel guess is made only while a purchase is pending
\* and uses the purchase up, and a pending purchase does not survive an accepted
\* spin, a new puzzle or an accepted consonant guess
C12_PurchaseOnlyForNextGuess ==
    [][/\ StepVowelGuess => waiting_for_vowel /\ ~waiting_for_vowel'
       /\ StepBetweenBuyAndVowel => ~waiting_for_vowel']_vars

\* some vowel of the phrase has not been guessed
VowelLeft ==
    \E v \in {"A", "E", "I", "O", "U"} :
        (\E i \in DOMAIN current_puzzle : current_puzzle[i] = v) /\ v \notin guessed_letters

\* C13: buy_vowel accepts exactly when the score is at least 250 and a vowel of
\* the phrase is unguessed; with too little money the reason given is the
\* money, whether or not a vowel is left; and the call changes nothing but the
\* message
C13_BuyVowelVerdict ==
    [][buy_vowel =>
        /\ BuyVowelResult <=> (score >= 250 /\ VowelLeft)
        /\ message' = Msg("Type a vowel (A, E, I, O, U)", "", 0) <=> (score >= 250 /\ VowelLeft)
        /\ score < 250 => message' = Msg("Need $", "", 250)
        /\ (score >= 250 /\ ~VowelLeft) => message' = Msg("No vowels left!", "", 0)
        /\ UNCHANGED <<score, revealed, guessed_letters, can_guess, current_value,
                       current_puzzle, wheel_angle, wheel_spinning, wheel_speed>>]_vars

\* buy_vowel was refused for the money while no vowel was left either
C13_Witness ==
    /\ score < 250
    /\ ~VowelLeft
    /\ message = Msg("Need $", "", 250)

\* the step is an accepted guess of the consonant l
ConsonantAccepted(l) ==
    /\ Upper(l) \notin VOWELS
    /\ ~Rejected(Upper(l), FALSE)
    /\ IsGuess(l, FALSE)

\* C14: a consonant guess is accepted only when the wheel is at rest after a
\* spin that was accepted since the last new puzzle and since the last accepted
\* consonant guess, and the guess uses that spin up
C14_ConsonantNeedsOwnSpin ==
    [][\A l \in KeyInputs :
          ConsonantAccepted(l) => fresh_spin /\ ~wheel_spinning /\ ~can_guess']_vars

\* C15: the reveal mask is as long as the phrase; a position that is not a
\* letter shows the phrase's own character; a letter position is hidden or
\* shows the phrase's character
C15_MaskMatchesPhrase ==
    /\ Len(revealed) = Len(current_puzzle)
    /\ \A i \in 1 .. Len(current_puzzle) :
          IF IsAlpha(current_puzzle[i])
          THEN revealed[i] = "_" \/ revealed[i] = current_puzzle[i]
          ELSE revealed[i] = current_puzzle[i]

\* a phrase with a space, a revealed letter and a hidden letter
C15_Witness ==
    /\ \E i \in DOMAIN current_puzzle : current_puzzle[i] = " " /\ revealed[i] = " "
    /\ \E i \in DOMAIN current_puzzle : IsAlpha(current_puzzle[i]) /\ revealed[i] = current_puzzle[i]
    /\ \E i \in DOMAIN current_puzzle : IsAlpha(current_puzzle[i]) /\ revealed[i] = "_"

\* the weight of a row in half cells: 2 for a cell that holds a letter of the
\* phrase, 1 for a cell that holds a space
RowWeight(row) ==
    2 * Len(row) - Cardinality({c \in DOMAIN row : lay_phrase[row[c] + 1] = " "})

\* C16: when every word fits the row limit, no row weighs more than the limit,
\* and a row is closed before a word exactly when the current row is not empty
\* and its weight plus half a cell plus the word's length exceeds the limit
C16_GreedyRowsFit ==
    /\ [](WordsFit => \A r \in DOMAIN rows : RowWeight(rows[r]) <= 2 * max_per_row)
    /\ [][(WordsFit /\ LayoutWord) =>
            (Len(rows') = Len(rows) + 1 <=>
                /\ current_row # <<>>
                /\ RowWeight(current_row) + 1 + 2 * Len(Split(lay_phrase)[word_i])
                      > 2 * max_per_row)]_vars

\* the 0-based phrase positions of word k, in order
WordCells(ws, k) == [c \in 1 .. Len(ws[k]) |-> WordStart(ws, k) + c - 1]

\* C17: the finished layout of the empty phrase has no rows; no row is empty;
\* and a word longer than the row limit has a row of its own that holds the
\* whole word
C17_OversizedWordOwnRow ==
    lay_pc = "done" =>
        /\ lay_phrase = <<>> => rows = <<>>
        /\ \A r \in DOMAIN rows : rows[r] # <<>>
        /\ \A k \in DOMAIN Split(lay_phrase) :
              Len(Split(lay_phrase)[k]) > max_per_row =>
                  \E r \in DOMAIN rows : rows[r] = WordCells(Split(lay_phrase), k)

\* C18: the turn awaits a guess exactly when the wheel value is positive
C18_GuessPhaseIffValue == can_guess <=> current_value > 0

\* the wheel has landed again after an earlier guess used up its value
C18_Witness == can_guess /\ current_value > 0 /\ guessed_letters # {} /\ score > 0

\* C19: the wheel is never spinning while the turn awaits a guess
C19_NotSpinningWhileGuessing == ~(wheel_spinning /\ can_guess)

\* a later spin is under way: the value of the spin before it has been used
C19_Witness == wheel_spinning /\ ~can_guess /\ guessed_letters # {} /\ wheel_speed < wheel_angle

\* C20: a letter position of the current phrase is revealed exactly when its
\* letter is among the guessed letters
C20_RevealedIffGuessed ==
    \A i \in DOMAIN current_puzzle :
        IsAlpha(current_puzzle[i]) =>
            (revealed[i] # "_" <=> current_puzzle[i] \in guessed_letters)

\* a guessed letter shows at two positions, another letter is hidden, and a
\* guessed letter is not in the phrase
C20_Witness ==
    /\ \E i, j \in DOMAIN current_puzzle :
          /\ i < j
          /\ current_puzzle[i] = current_puzzle[j]
          /\ current_puzzle[i] \in guessed_letters
          /\ revealed[i] # "_" /\ revealed[j] # "_"
    /\ \E i \in DOMAIN current_puzzle : revealed[i] = "_"
    /\ \E g \in guessed_letters : \A i \in DOMAIN current_puzzle : current_puzzle[i] # g

\* the step uses up the pending purchase: a vowel key while waiting_for_vowel
PurchaseConsumed == waiting_for_vowel /\ ~waiting_for_vowel'

\* C21: in the host loop the score is at least 250 whenever a vowel purchase is
\* pending, and a step that uses the pending purchase up is never turned away
\* for the money: it charges 250 (the solve bonus apart) or turns away a vowel
\* that was already guessed and changes no score
C21_PendingPurchaseIsFunded ==
    /\ [](waiting_for_vowel => score >= 250)
    /\ [][PurchaseConsumed =>
            /\ message' # Msg("Need $", "", 250)
            /\ \/ score' = score - 250
               \/ score' = score - 250 + 1000 /\ solved_count' = solved_count + 1
               \/ /\ score' = score
                  /\ \E v \in {"A", "E", "I", "O", "U"} : v \in guessed_letters
                  /\ message' = Msg("Already guessed!", "", 0)
                  /\ UNCHANGED <<revealed, guessed_letters>>]_vars

\* a purchase is pending after an earlier one was used up and charged
C21_Witness ==
    /\ waiting_for_vowel
    /\ \E v \in {"A", "E", "I", "O", "U"} : v \in guessed_letters

\* a cell is hidden, every hidden cell is a vowel, and a vowel cannot be paid
DeadEnd ==
    /\ \E i \in DOMAIN revealed : revealed[i] = "_"
    /\ \A i \in DOMAIN revealed :
          revealed[i] = "_" => current_puzzle[i] \in {"A", "E", "I", "O", "U"}
    /\ score < 250

\* C22: no reachable state has a hidden cell, only vowels hidden and a score
\* below 250, the state from which the puzzle cannot be completed
C22_AlwaysCompletable == ~DeadEnd

====
